---- MODULE Spec2Model ----
(***************************************************************************)
(* A model of the streaming ZIP reader: the sequential decoder             *)
(* (zipEntries / readEntireZip) and the selective, central-directory       *)
(* driven decoder (iterateZipFiles2 = centralDirectoryEntries | filter |   *)
(* partitionNearbyEntries | fetchPartitionedEntries).                      *)
(*                                                                         *)
(* A byte source is built from a small descriptor by the encoders below,   *)
(* and every decoder works on the bytes of the source.                     *)
(***************************************************************************)
EXTENDS Integers, Sequences, FiniteSets, TLC

(***************************************************************************)
(* Program constants                                                       *)
(***************************************************************************)
CENTRAL_DIRECTORY_END_SCAN_CHUNK_SIZE == 50 * 1024
FILE_HEADER_SIZE == 32
SIGNATURE_FILE == 67324752
SIGNATURE_CENTRAL_DIRECTORY_START == 33639248
SIGNATURE_CENTRAL_DIRECTORY_END == 101010256
\* new Semaphore({ concurrency: 10 })
SemConcurrency == 10
\* partitionNearbyEntries({ maxGap = -10 * 1024 })
DefaultMaxGap == 0 - 10 * 1024

\* the value of a decoder that returns null
NULL == [signature |-> 0]
IsNull(entry) == entry.signature = 0

Min(a, b) == IF a < b THEN a ELSE b
Max(a, b) == IF a > b THEN a ELSE b

(***************************************************************************)
(* Little-endian integers.  A Uint32 whose top byte is 128 or more is      *)
(* represented by its two's complement value, which keeps getUint32        *)
(* injective within the integer range of the checker.                      *)
(***************************************************************************)
U16(n) == <<n % 256, n \div 256>>
U32(n) == <<n % 256, (n \div 256) % 256, (n \div 65536) % 256, n \div 16777216>>
Zeros(n) == [i \in 1..n |-> 0]
Fill(n, b) == [i \in 1..n |-> b]

getUint16(data, off) == data[off + 1] + 256 * data[off + 2]
getUint32(data, off) ==
    data[off + 1] + 256 * data[off + 2] + 65536 * data[off + 3]
      + 16777216 * (IF data[off + 4] < 128 THEN data[off + 4] ELSE data[off + 4] - 256)

(***************************************************************************)
(* Byte sources.  A source descriptor is [kind, files, commentLength]:     *)
(* kind "zip": the local file records of files, the central directory,     *)
(*   the end-of-central-directory record and a trailing comment of         *)
(*   commentLength bytes;                                                  *)
(* kind "raw": the local file records followed by commentLength filler     *)
(*   bytes, with no central directory and no end record;                   *)
(* kind "cut": a "zip" whose last 8 bytes are missing.                     *)
(* A file is [fileName, body, fill, compressionMethod, extraLength,        *)
(* fileCommentLength]; names and bodies are sequences of bytes.  The body  *)
(* of the first file of an archive may go on with fill more spaces, which  *)
(* the source keeps as a count (gap) and not as bytes.  The archive        *)
(* comment is made of spaces (32), a file comment of '#' (35).             *)
(***************************************************************************)
\* DecompressionStream('deflate-raw') and its inverse, on the streams that
\* consist of one final stored block: 01 LEN NLEN data.
Deflate(body) == <<1>> \o U16(Len(body)) \o U16(65535 - Len(body)) \o body
Inflate(bytes) ==
    IF /\ Len(bytes) >= 5
       /\ bytes[1] = 1
       /\ getUint16(bytes, 1) + getUint16(bytes, 3) = 65535
       /\ Len(bytes) = 5 + getUint16(bytes, 1)
    THEN [ok |-> TRUE, bytes |-> SubSeq(bytes, 6, Len(bytes))]
    ELSE [ok |-> FALSE, bytes |-> <<>>]

CompressedData(f) == IF f.compressionMethod = 8 THEN Deflate(f.body) ELSE f.body

\* the bytes of a local file record, without the fill of its body
LocalFileRecord(f) ==
    U32(SIGNATURE_FILE) \o U16(20) \o U16(0) \o U16(f.compressionMethod)
      \o U16(0) \o U16(0) \o U32(0)
      \o U32(Len(CompressedData(f)) + f.fill) \o U32(Len(f.body) + f.fill)
      \o U16(Len(f.fileName)) \o U16(f.extraLength)
      \o f.fileName \o Zeros(f.extraLength) \o CompressedData(f)

LocalLength(f) == Len(LocalFileRecord(f)) + f.fill

CentralDirectoryRecord(f, firstByteAt) ==
    U32(SIGNATURE_CENTRAL_DIRECTORY_START) \o U16(20) \o U16(20) \o U16(0)
      \o U16(f.compressionMethod) \o U16(0) \o U16(0) \o U32(0)
      \o U32(Len(CompressedData(f)) + f.fill) \o U32(Len(f.body) + f.fill)
      \o U16(Len(f.fileName)) \o U16(f.extraLength) \o U16(f.fileCommentLength)
      \o U16(0) \o U16(0) \o U32(0) \o U32(firstByteAt)
      \o f.fileName \o Zeros(f.extraLength) \o Fill(f.fileCommentLength, 35)

EndOfCentralDirectoryRecord(n, size, offset, commentLength) ==
    U32(SIGNATURE_CENTRAL_DIRECTORY_END) \o U16(0) \o U16(0) \o U16(n) \o U16(n)
      \o U32(size) \o U32(offset) \o U16(commentLength)

RECURSIVE LocalRecords(_)
LocalRecords(files) ==
    IF files = <<>> THEN <<>>
    ELSE LocalFileRecord(Head(files)) \o LocalRecords(Tail(files))

RECURSIVE LocalsLength(_)
LocalsLength(files) ==
    IF files = <<>> THEN 0 ELSE LocalLength(Head(files)) + LocalsLength(Tail(files))

RECURSIVE CentralDirectory(_, _)
CentralDirectory(files, firstByteAt) ==
    IF files = <<>> THEN <<>>
    ELSE CentralDirectoryRecord(Head(files), firstByteAt)
           \o CentralDirectory(Tail(files), firstByteAt + LocalLength(Head(files)))

ZipBytes(d) ==
    LET locals == LocalRecords(d.files)
        cd == CentralDirectory(d.files, 0)
        zip == locals \o cd
                 \o EndOfCentralDirectoryRecord(Len(d.files), Len(cd),
                                                LocalsLength(d.files), d.commentLength)
        lastRecordAt == Len(locals) + Len(CentralDirectory(Tail(d.files), 0))
    IN  IF d.kind = "zip" THEN zip
        ELSE IF d.kind = "cut" THEN SubSeq(zip, 1, Len(zip) - 8)
        ELSE IF d.kind = "corrupt"
        THEN [k \in 1..Len(zip) |-> IF k = lastRecordAt + 4 THEN 9 ELSE zip[k]]
        ELSE locals

(***************************************************************************)
(* The sources the model is run on.                                        *)
(***************************************************************************)
MaxFiles == 2

File(name, body, method, commentLength) ==
    [fileName |-> name, body |-> body, fill |-> 0, compressionMethod |-> method,
     extraLength |-> 0, fileCommentLength |-> commentLength]

\* "a" (stored), "b/" (a directory of size 0), "c" (deflated)
FileChoices ==
    { File(<<97>>, <<7>>, 0, 0),
      File(<<98, 47>>, <<>>, 0, 0),
      File(<<99>>, <<5, 6>>, 8, 0) }

\* "z": a stored file as long as a scan chunk
BigFile ==
    [File(<<122>>, <<>>, 0, 0) EXCEPT !.fill = CENTRAL_DIRECTORY_END_SCAN_CHUNK_SIZE]

SeqsUpTo(S, n) == UNION {[1..k -> S] : k \in 0..n}

Zip(files, commentLength) ==
    [kind |-> "zip", files |-> files, commentLength |-> commentLength]
Raw(files, length) ==
    [kind |-> "raw", files |-> files, commentLength |-> length]

\* a.txt (10 bytes), dir/ (0 bytes), dir/b.txt (20 bytes)
ScenarioArchive ==
    Zip(<< File(<<97, 46, 116, 120, 116>>, [i \in 1..10 |-> 64 + i], 0, 0),
           File(<<100, 105, 114, 47>>, <<>>, 0, 0),
           File(<<100, 105, 114, 47, 98, 46, 116, 120, 116>>,
                [i \in 1..20 |-> 96 + (i % 26)], 8, 0) >>, 0)

CutArchive == [kind |-> "cut", files |-> << File(<<97>>, <<7>>, 0, 0) >>, commentLength |-> 0]

\* "d/" (a directory entry of size 1) and "e" (a file of size 0)
PredicateArchive ==
    Zip(<< File(<<100, 47>>, <<9>>, 0, 0), File(<<101>>, <<>>, 0, 0) >>, 0)

\* "a", whose central directory record has a comment of 29 bytes, and "ab"
CommentedArchive ==
    Zip(<< File(<<97>>, <<7>>, 0, 29), File(<<97, 98>>, <<8>>, 0, 0) >>, 0)

\* "a", whose central directory record has a comment of 31 bytes, and "b"
SkippedArchive ==
    Zip(<< File(<<97>>, <<7>>, 0, 31), File(<<98>>, <<8>>, 0, 0) >>, 0)

\* "a" and "c", with the signature of the second central directory record damaged
CorruptArchive ==
    [kind |-> "corrupt",
     files |-> << File(<<97>>, <<7>>, 0, 0), File(<<99>>, <<5, 6>>, 8, 0) >>,
     commentLength |-> 0]

PipelineSources ==
    {Zip(fs, 0) : fs \in SeqsUpTo(FileChoices, MaxFiles)}
      \cup {ScenarioArchive, CutArchive, PredicateArchive, CommentedArchive,
            SkippedArchive, CorruptArchive}

\* comment lengths that put the end record at, across and before the boundary
\* of the last scan chunk, and the longest comment
ScanCommentLengths ==
    {0, 1, 65535}
      \cup {CENTRAL_DIRECTORY_END_SCAN_CHUNK_SIZE + k :
               k \in {0 - 22, 0 - 21, 0 - 19, 0 - 18, 0 - 3, 0 - 2, 0 - 1, 0, 1}}

\* archives with a trailing comment, and sources without an end record
ScanSources ==
    {Zip(<< BigFile >>, c) : c \in ScanCommentLengths}
      \cup {Zip(<< File(<<97>>, <<7>>, 0, 0) >>, c) :
              c \in {1, CENTRAL_DIRECTORY_END_SCAN_CHUNK_SIZE - 1, 65535}}
      \cup {Raw(<<>>, n) : n \in {1, 4, CENTRAL_DIRECTORY_END_SCAN_CHUNK_SIZE + 1}}

\* the BytesSource of a descriptor: bytes, with gap spaces after the first gapAt
\* of them, followed by pad comment bytes; dirAt and dirLength say where the
\* encoder put the central directory
Source(d) ==
    [kind |-> d.kind, bytes |-> ZipBytes(d),
     gapAt |-> IF d.files = <<>> THEN 0 ELSE Len(LocalFileRecord(d.files[1])),
     gap |-> IF d.files = <<>> THEN 0 ELSE d.files[1].fill,
     pad |-> d.commentLength,
     dirAt |-> LocalsLength(d.files),
     dirLength |-> Len(CentralDirectory(d.files, 0))]

\* source.length
SourceLength(src) == Len(src.bytes) + src.gap + src.pad
ByteAt(src, x) ==
    IF x < src.gapAt THEN src.bytes[x + 1]
    ELSE IF x < src.gapAt + src.gap THEN 32
    ELSE IF x - src.gap < Len(src.bytes) THEN src.bytes[x - src.gap + 1]
    ELSE 32

(***************************************************************************)
(* Byte streams.  A stream is [segs, pos]: the bytes of the segments       *)
(* [lo, hi] of the source, in order, and the number of bytes already read. *)
(***************************************************************************)
SegLen(seg) == IF seg.hi < seg.lo THEN 0 ELSE seg.hi - seg.lo + 1

RECURSIVE SegsLen(_)
SegsLen(segs) == IF segs = <<>> THEN 0 ELSE SegLen(Head(segs)) + SegsLen(Tail(segs))

RECURSIVE SegsByte(_, _, _)
SegsByte(src, segs, k) ==
    IF k < SegLen(Head(segs)) THEN ByteAt(src, Head(segs).lo + k)
    ELSE SegsByte(src, Tail(segs), k - SegLen(Head(segs)))

\* source.streamBytes(start, end): a range request, clipped to the source
streamBytes(src, start, end) ==
    [segs |-> << [lo |-> start, hi |-> Min(end, SourceLength(src) - 1)] >>, pos |-> 0]

Remaining(st) == SegsLen(st.segs) - st.pos

\* what limitBytes(stream, n) delivers: the next n bytes, fewer at the end
limitBytes(src, st, n) ==
    [i \in 1..Min(n, Remaining(st)) |-> SegsByte(src, st.segs, st.pos + i - 1)]
Advance(st, n) == [st EXCEPT !.pos = @ + Min(n, Remaining(st))]

\* concatNBytes(n): the chunks copied into a zero-filled buffer of n bytes
concatNBytes(chunk, n) == chunk \o Zeros(n - Len(chunk))
readBytes(src, st, n) == concatNBytes(limitBytes(src, st, n), n)
\* TextDecoderStream + concatString: the text of the bytes that were there
readString(src, st, n) == limitBytes(src, st, n)

endsWithSlash(name) == Len(name) > 0 /\ name[Len(name)] = 47

(***************************************************************************)
(* Record decoders.  Each returns [entry, stream, threw]: the decoded      *)
(* record or NULL, the stream after the read, and whether it threw.        *)
(***************************************************************************)
\* a readFileEntry that leaves the body in the stream
bodyEnd_Unread(st, compressedSize) == st

\* the stream once limitBytes(stream, compressedSize) has been read to its end
bodyEnd(st, compressedSize) == Advance(st, compressedSize)

readFileEntry(src, st, skipSignature) ==
    LET s0 == IF skipSignature THEN st ELSE Advance(st, 4)
        signature == IF skipSignature THEN SIGNATURE_FILE
                     ELSE getUint32(readBytes(src, st, 4), 0)
        data == readBytes(src, s0, 26)
        s1 == Advance(s0, 26)
        compressionMethod == getUint16(data, 4)
        compressedSize == getUint32(data, 14)
        fileNameLength == getUint16(data, 22)
        extraLength == getUint16(data, 24)
        fileName == readString(src, s1, fileNameLength)
        s2 == Advance(s1, fileNameLength)
        s3 == Advance(s2, extraLength)
        raw == limitBytes(src, s3, compressedSize)
        s4 == bodyEnd(s3, compressedSize)
        inflated == Inflate(raw)
    IN  IF signature # SIGNATURE_FILE
        THEN [entry |-> NULL, stream |-> s0, threw |-> FALSE]
        ELSE IF compressionMethod = 8 /\ ~inflated.ok
        THEN [entry |-> NULL, stream |-> s4, threw |-> TRUE]
        ELSE [entry |-> [signature |-> SIGNATURE_FILE,
                         compressionMethod |-> compressionMethod,
                         compressedSize |-> compressedSize,
                         uncompressedSize |-> getUint32(data, 18),
                         fileNameLength |-> fileNameLength,
                         fileName |-> fileName,
                         isDirectory |-> endsWithSlash(fileName),
                         extraLength |-> extraLength,
                         body |-> IF compressionMethod = 8 THEN inflated.bytes ELSE raw],
              stream |-> s4, threw |-> FALSE]

\* a lastByteAt that leaves the compressed body out of the range
lastByteAt_WithoutBody(firstByteAt, fileNameLength, fileCommentLength, extraLength, compressedSize) ==
    firstByteAt + FILE_HEADER_SIZE + fileNameLength + fileCommentLength + extraLength - 1

\* centralDirectory['lastByteAt']
lastByteAt(firstByteAt, fileNameLength, fileCommentLength, extraLength, compressedSize) ==
    firstByteAt + FILE_HEADER_SIZE + fileNameLength + fileCommentLength + extraLength
      + compressedSize - 1

readCentralDirectory(src, st, skipSignature) ==
    LET s0 == IF skipSignature THEN st ELSE Advance(st, 4)
        signature == IF skipSignature THEN SIGNATURE_CENTRAL_DIRECTORY_START
                     ELSE getUint32(readBytes(src, st, 4), 0)
        data == readBytes(src, s0, 42)
        s1 == Advance(s0, 42)
        compressedSize == getUint32(data, 16)
        fileNameLength == getUint16(data, 24)
        extraLength == getUint16(data, 26)
        fileCommentLength == getUint16(data, 28)
        firstByteAt == getUint32(data, 38)
        fileName == readString(src, s1, fileNameLength)
        s2 == Advance(s1, fileNameLength)
        s3 == Advance(s2, extraLength)
        s4 == Advance(s3, fileCommentLength)
    IN  IF signature # SIGNATURE_CENTRAL_DIRECTORY_START
        THEN [entry |-> NULL, stream |-> s0, threw |-> FALSE]
        ELSE [entry |-> [signature |-> SIGNATURE_CENTRAL_DIRECTORY_START,
                         compressionMethod |-> getUint16(data, 6),
                         compressedSize |-> compressedSize,
                         uncompressedSize |-> getUint32(data, 20),
                         fileNameLength |-> fileNameLength,
                         extraLength |-> extraLength,
                         fileCommentLength |-> fileCommentLength,
                         firstByteAt |-> firstByteAt,
                         lastByteAt |-> lastByteAt(firstByteAt, fileNameLength,
                                                   fileCommentLength, extraLength,
                                                   compressedSize),
                         fileName |-> fileName,
                         isDirectory |-> endsWithSlash(fileName)],
              stream |-> s4, threw |-> FALSE]

readEndCentralDirectory(src, st, skipSignature) ==
    LET s0 == IF skipSignature THEN st ELSE Advance(st, 4)
        signature == IF skipSignature THEN SIGNATURE_CENTRAL_DIRECTORY_END
                     ELSE getUint32(readBytes(src, st, 4), 0)
        data == readBytes(src, s0, 18)
        s1 == Advance(s0, 18)
        commentLength == getUint16(data, 16)
    IN  IF signature # SIGNATURE_CENTRAL_DIRECTORY_END
        THEN [entry |-> NULL, stream |-> s0, threw |-> FALSE]
        ELSE [entry |-> [signature |-> SIGNATURE_CENTRAL_DIRECTORY_END,
                         numberCentralDirectoryRecords |-> getUint16(data, 6),
                         centralDirectorySize |-> getUint32(data, 8),
                         centralDirectoryOffset |-> getUint32(data, 12),
                         commentLength |-> commentLength],
              stream |-> Advance(s1, commentLength), threw |-> FALSE]

\* a readNextEntry that throws on a signature it does not know
readNextEntry_Rejecting(src, st) ==
    LET signature == getUint32(readBytes(src, st, 4), 0)
        s0 == Advance(st, 4)
    IN  IF signature = SIGNATURE_FILE THEN readFileEntry(src, s0, TRUE)
        ELSE IF signature = SIGNATURE_CENTRAL_DIRECTORY_START
        THEN readCentralDirectory(src, s0, TRUE)
        ELSE IF signature = SIGNATURE_CENTRAL_DIRECTORY_END
        THEN readEndCentralDirectory(src, s0, TRUE)
        ELSE [entry |-> NULL, stream |-> s0, threw |-> TRUE]

readNextEntry(src, st) ==
    LET signature == getUint32(readBytes(src, st, 4), 0)
        s0 == Advance(st, 4)
    IN  IF signature = SIGNATURE_FILE THEN readFileEntry(src, s0, TRUE)
        ELSE IF signature = SIGNATURE_CENTRAL_DIRECTORY_START
        THEN readCentralDirectory(src, s0, TRUE)
        ELSE IF signature = SIGNATURE_CENTRAL_DIRECTORY_END
        THEN readEndCentralDirectory(src, s0, TRUE)
        ELSE [entry |-> NULL, stream |-> s0, threw |-> FALSE]

\* a predicate that drops every directory record, whatever its size
predicate_FilesOnly(e) == ~e.isDirectory

\* the default selection predicate
predicate(e) == ~e.isDirectory \/ e.uncompressedSize # 0

(***************************************************************************)
(* State                                                                   *)
(***************************************************************************)
VARIABLES
    source,                 \* the BytesSource: [kind, bytes, gapAt, gap, pad]
    scan,                   \* streamCentralDirectory: [pc, chunkStart, centralDirectory, dirStart, chunks]
    requests,               \* every range request issued so far: [by, start, end]
    centralDirectoryStream, \* the stream streamCentralDirectory returned
    cdEntries,              \* centralDirectoryEntries' ReadableStream: [state, queue]
    filtered,               \* records that passed filterStream(predicate), not yet partitioned
    selected,               \* every record that has passed filterStream(predicate)
    maxGap,                 \* partitionNearbyEntries: its option
    lastFileEndsAt,         \* partitionNearbyEntries
    currentChunk,           \* partitionNearbyEntries
    flushed,                \* partitionNearbyEntries: flush() has run
    partitions,             \* partitions emitted by the partitioner, not yet written
    isWritableClosed,       \* fetchPartitionedEntries
    requestsInProgress,     \* fetchPartitionedEntries
    byteStreams,            \* fetchPartitionedEntries: [zipEntries, stream, req]
    writable,               \* the WritableStream's state: writable, closed, errored
    submitted,              \* the partitions passed to write(), in order
    rq,                     \* state of the requestChunkRange call of each written partition
    semRunning,             \* the Semaphore: slots in use
    failures,               \* range requests rejected so far
    readable,               \* the output ReadableStream: [state, queue, closeRequested]
    pull,                   \* position of readable.pull(): idle, wait, read
    received,               \* the entries the consumer has read
    consumer,               \* the consumer's for-await loop: reading, done, failed
    sequential              \* zipEntries over the whole source: [stream, state, entries]

vars == << source, scan, requests, centralDirectoryStream, cdEntries, filtered, selected,
           maxGap,
           lastFileEndsAt, currentChunk, flushed, partitions, isWritableClosed,
           requestsInProgress, byteStreams, writable, submitted, rq, semRunning,
           failures, readable, pull, received, consumer, sequential >>

scanVars == << scan, centralDirectoryStream >>
upstreamVars == << cdEntries, filtered, selected >>
partitionerVars == << lastFileEndsAt, currentChunk, flushed >>
fetcherVars == << isWritableClosed, requestsInProgress, byteStreams, writable >>
requestVars == << submitted, rq, semRunning, failures >>
consumerVars == << readable, pull, received, consumer >>

\* bounds of the environment
MaxScanChunks == 3
MaxFailures == 1

NoStream == [segs |-> <<>>, pos |-> 0]

InitWith(src, gap) ==
    /\ source = src
    /\ scan = [pc |-> "scan", chunkStart |-> SourceLength(src),
               centralDirectory |-> <<>>, dirStart |-> 0, chunks |-> 0]
    /\ requests = <<>>
    /\ centralDirectoryStream = NoStream
    /\ cdEntries = [state |-> "starting", queue |-> <<>>]
    /\ filtered = <<>>
    /\ selected = <<>>
    /\ maxGap = gap
    /\ lastFileEndsAt = 0
    /\ currentChunk = <<>>
    /\ flushed = FALSE
    /\ partitions = <<>>
    /\ isWritableClosed = FALSE
    /\ requestsInProgress = 0
    /\ byteStreams = <<>>
    /\ writable = "writable"
    /\ submitted = <<>>
    /\ rq = <<>>
    /\ semRunning = 0
    /\ failures = 0
    /\ readable = [state |-> "readable", queue |-> <<>>, closeRequested |-> FALSE]
    /\ pull = "idle"
    /\ received = <<>>
    /\ consumer = "reading"
    /\ sequential = [stream |-> streamBytes(src, 0, SourceLength(src) - 1),
                     state |-> "readable", entries |-> <<>>]

Init == \E d \in PipelineSources \cup ScanSources : InitWith(Source(d), DefaultMaxGap)

(***************************************************************************)
(* streamCentralDirectory                                                  *)
(***************************************************************************)
\* centralDirectory.slice(k)
RECURSIVE slice(_, _)
slice(segs, k) ==
    IF segs = <<>> \/ k <= 0 THEN segs
    ELSE IF k >= SegLen(Head(segs)) THEN slice(Tail(segs), k - SegLen(Head(segs)))
    ELSE << [Head(segs) EXCEPT !.lo = @ + k] >> \o Tail(segs)

\* view.getUint32(i, true) on the chunk that starts at chunkStart
viewGetUint32(src, chunkStart, i) ==
    getUint32(<< ByteAt(src, chunkStart + i), ByteAt(src, chunkStart + i + 1),
                 ByteAt(src, chunkStart + i + 2), ByteAt(src, chunkStart + i + 3) >>, 0)

\* the offsets of the chunk at which the scan loop sees the signature
SignatureOffsets(src, chunkStart, byteLength) ==
    {i \in 0..(byteLength - 4) :
        viewGetUint32(src, chunkStart, i) = SIGNATURE_CENTRAL_DIRECTORY_END}

SetMax(S) == CHOOSE x \in S : \A y \in S : y <= x

\* the offset of the directory length field, taken for that of the directory offset
centralDirectoryOffsetAt_LengthField(i) == i + 12

\* where the scan reads the directory offset, for a signature found at i
centralDirectoryOffsetAt(i) == i + 12 + 4

\* the pull chain is alive until the writable side of the fetcher errors
PipeAlive == writable # "errored"

\* one iteration of the do-while loop: fetch a chunk, prepend it, scan it
ScanChunk ==
    /\ scan.pc = "scan"
    /\ scan.chunks < MaxScanChunks
    /\ LET chunkSize == CENTRAL_DIRECTORY_END_SCAN_CHUNK_SIZE
           chunkStart == Max(0, scan.chunkStart - chunkSize)
           chunkEnd == Min(chunkStart + chunkSize - 1, SourceLength(source) - 1)
           bytes == [lo |-> chunkStart, hi |-> chunkEnd]
           centralDirectory == << bytes >> \o scan.centralDirectory
           byteLength == SegLen(bytes)
           found == SignatureOffsets(source, chunkStart, byteLength)
           i == SetMax(found)
           dirStart == viewGetUint32(source, chunkStart, centralDirectoryOffsetAt(i))
           next == [scan EXCEPT !.chunkStart = chunkStart,
                                !.centralDirectory = centralDirectory,
                                !.chunks = @ + 1]
       IN  /\ requests' = Append(requests, [by |-> "scan", start |-> chunkStart, end |-> chunkEnd])
           /\ IF found = {}
              THEN \* no match in this chunk: while (chunkStart >= 0) loops again
                   /\ scan' = next
                   /\ UNCHANGED << centralDirectoryStream, cdEntries >>
              ELSE IF SegsLen(centralDirectory) < centralDirectoryOffsetAt(i) + 4
              THEN \* throw new Error('Central directory not found')
                   /\ scan' = [next EXCEPT !.pc = "notfound"]
                   /\ cdEntries' = [cdEntries EXCEPT !.state = "errored"]
                   /\ UNCHANGED centralDirectoryStream
              ELSE IF byteLength < centralDirectoryOffsetAt(i) + 4
              THEN \* view.getUint32 beyond the chunk: RangeError
                   /\ scan' = [next EXCEPT !.pc = "rangeerror"]
                   /\ cdEntries' = [cdEntries EXCEPT !.state = "errored"]
                   /\ UNCHANGED centralDirectoryStream
              ELSE IF dirStart < chunkStart
              THEN \* await source.streamBytes(dirStart, chunkStart - 1)
                   /\ scan' = [next EXCEPT !.pc = "backfill", !.dirStart = dirStart]
                   /\ UNCHANGED << centralDirectoryStream, cdEntries >>
              ELSE /\ scan' = [next EXCEPT !.pc = "found", !.dirStart = dirStart,
                                           !.centralDirectory =
                                               slice(centralDirectory, dirStart - chunkStart)]
                   /\ centralDirectoryStream' =
                          [segs |-> slice(centralDirectory, dirStart - chunkStart), pos |-> 0]
                   /\ cdEntries' = [cdEntries EXCEPT !.state = "readable"]
    /\ UNCHANGED << source, sequential, filtered, selected, maxGap, partitionerVars, partitions,
                    fetcherVars, requestVars, consumerVars >>

\* the missing bytes before the scanned region are fetched and prepended
ScanBackfill ==
    /\ scan.pc = "backfill"
    /\ LET missingBytes == [lo |-> scan.dirStart,
                            hi |-> Min(scan.chunkStart - 1, SourceLength(source) - 1)]
           centralDirectory == << missingBytes >> \o scan.centralDirectory
       IN  /\ requests' = Append(requests, [by |-> "backfill", start |-> scan.dirStart,
                                            end |-> scan.chunkStart - 1])
           /\ scan' = [scan EXCEPT !.pc = "found", !.centralDirectory = centralDirectory]
           /\ centralDirectoryStream' = [segs |-> centralDirectory, pos |-> 0]
           /\ cdEntries' = [cdEntries EXCEPT !.state = "readable"]
    /\ UNCHANGED << source, sequential, filtered, selected, maxGap, partitionerVars, partitions,
                    fetcherVars, requestVars, consumerVars >>

(***************************************************************************)
(* centralDirectoryEntries | filterStream(predicate) | partitionNearbyEntries *)
(***************************************************************************)
\* centralDirectoryEntries: pull(controller)
CentralDirectoryPull ==
    /\ cdEntries.state = "readable"
    /\ cdEntries.queue = <<>>
    /\ PipeAlive
    /\ LET r == readCentralDirectory(source, centralDirectoryStream, FALSE)
       IN  /\ centralDirectoryStream' = r.stream
           /\ IF IsNull(r.entry)
              THEN cdEntries' = [cdEntries EXCEPT !.state = "closed"]
              ELSE cdEntries' = [cdEntries EXCEPT !.queue = Append(@, r.entry)]
    /\ UNCHANGED << source, sequential, scan, requests, filtered, selected, maxGap, partitionerVars,
                    partitions, fetcherVars, requestVars, consumerVars >>

\* filterStream(predicate): transform(chunk, controller)
FilterTransform ==
    /\ cdEntries.queue # <<>>
    /\ filtered = <<>>
    /\ PipeAlive
    /\ cdEntries' = [cdEntries EXCEPT !.queue = Tail(@)]
    /\ filtered' = IF predicate(Head(cdEntries.queue))
                   THEN Append(filtered, Head(cdEntries.queue))
                   ELSE filtered
    /\ selected' = IF predicate(Head(cdEntries.queue))
                   THEN Append(selected, Head(cdEntries.queue))
                   ELSE selected
    /\ UNCHANGED << source, sequential, scanVars, requests, maxGap, partitionerVars, partitions,
                    fetcherVars, requestVars, consumerVars >>

\* a transform that also starts a new chunk when the record begins exactly at
\* lastFileEndsAt + maxGap
PartitionTransform_Inclusive ==
    /\ filtered # <<>>
    /\ ~flushed
    /\ PipeAlive
    /\ LET zipEntry == Head(filtered)
           tooFar == zipEntry.firstByteAt >= lastFileEndsAt + maxGap
       IN  /\ partitions' = IF tooFar THEN Append(partitions, currentChunk) ELSE partitions
           /\ currentChunk' = Append(IF tooFar THEN <<>> ELSE currentChunk, zipEntry)
           /\ lastFileEndsAt' = zipEntry.lastByteAt
    /\ filtered' = Tail(filtered)
    /\ UNCHANGED << source, sequential, scanVars, requests, cdEntries, selected, maxGap, flushed,
                    fetcherVars, requestVars, consumerVars >>

\* a transform that enqueues the chunk and goes on filling the same array
PartitionTransform_KeepingChunk ==
    /\ filtered # <<>>
    /\ ~flushed
    /\ PipeAlive
    /\ LET zipEntry == Head(filtered)
           tooFar == zipEntry.firstByteAt > lastFileEndsAt + maxGap
       IN  /\ partitions' = IF tooFar THEN Append(partitions, currentChunk) ELSE partitions
           /\ currentChunk' = Append(currentChunk, zipEntry)
           /\ lastFileEndsAt' = zipEntry.lastByteAt
    /\ filtered' = Tail(filtered)
    /\ UNCHANGED << source, sequential, scanVars, requests, cdEntries, selected, maxGap, flushed,
                    fetcherVars, requestVars, consumerVars >>

\* partitionNearbyEntries: transform(zipEntry, controller)
PartitionTransform ==
    /\ filtered # <<>>
    /\ ~flushed
    /\ PipeAlive
    /\ LET zipEntry == Head(filtered)
           tooFar == zipEntry.firstByteAt > lastFileEndsAt + maxGap
       IN  /\ partitions' = IF tooFar THEN Append(partitions, currentChunk) ELSE partitions
           /\ currentChunk' = Append(IF tooFar THEN <<>> ELSE currentChunk, zipEntry)
           /\ lastFileEndsAt' = zipEntry.lastByteAt
    /\ filtered' = Tail(filtered)
    /\ UNCHANGED << source, sequential, scanVars, requests, cdEntries, selected, maxGap, flushed,
                    fetcherVars, requestVars, consumerVars >>

\* the record streams before the partitioner have ended
UpstreamDone == cdEntries.state = "closed" /\ cdEntries.queue = <<>> /\ filtered = <<>>

\* a flush that ends the stream without enqueueing the accumulator
PartitionFlush_Dropping ==
    /\ UpstreamDone
    /\ ~flushed
    /\ PipeAlive
    /\ flushed' = TRUE
    /\ UNCHANGED << source, sequential, scanVars, requests, upstreamVars, maxGap, lastFileEndsAt,
                    currentChunk, partitions, fetcherVars, requestVars, consumerVars >>

\* partitionNearbyEntries: flush(controller)
PartitionFlush ==
    /\ UpstreamDone
    /\ ~flushed
    /\ PipeAlive
    /\ partitions' = Append(partitions, currentChunk)
    /\ flushed' = TRUE
    /\ UNCHANGED << source, sequential, scanVars, requests, upstreamVars, maxGap, lastFileEndsAt,
                    currentChunk, fetcherVars, requestVars, consumerVars >>

(***************************************************************************)
(* The Semaphore of @php-wasm/util: a gate of SemConcurrency slots that    *)
(* makes the callers of acquire() wait, in order, while no slot is free.   *)
(***************************************************************************)
SemFree(running) == running < SemConcurrency
SemAcquired(running) == running + 1
SemReleased(running) == running - 1

(***************************************************************************)
(* fetchPartitionedEntries: the writable side                              *)
(***************************************************************************)
\* a write that counts a request in progress before it looks at the length
Write_CountingEmpty ==
    /\ partitions # <<>>
    /\ writable = "writable"
    /\ LET zipEntries == Head(partitions)
       IN  /\ partitions' = Tail(partitions)
           /\ submitted' = Append(submitted, zipEntries)
           /\ requestsInProgress' = requestsInProgress + 1
           /\ rq' = Append(rq, IF zipEntries = <<>> THEN "none" ELSE "acquire")
    /\ UNCHANGED << source, sequential, scanVars, requests, upstreamVars, maxGap, partitionerVars,
                    isWritableClosed, byteStreams, writable, semRunning, failures,
                    consumerVars >>

\* write(zipEntries, controller), up to the await in requestChunkRange
Write ==
    /\ partitions # <<>>
    /\ writable = "writable"
    /\ LET zipEntries == Head(partitions)
       IN  /\ partitions' = Tail(partitions)
           /\ submitted' = Append(submitted, zipEntries)
           /\ IF zipEntries = <<>>
              THEN /\ rq' = Append(rq, "none")
                   /\ UNCHANGED requestsInProgress
              ELSE /\ rq' = Append(rq, "acquire")
                   /\ requestsInProgress' = requestsInProgress + 1
    /\ UNCHANGED << source, sequential, scanVars, requests, upstreamVars, maxGap, partitionerVars,
                    isWritableClosed, byteStreams, writable, semRunning, failures,
                    consumerVars >>

\* a requestChunkRange that issues the range request without waiting for a slot
Acquire_Ungated(r) ==
    /\ rq[r] = "acquire"
    /\ \A q \in 1..(r - 1) : rq[q] # "acquire"
    /\ semRunning' = SemAcquired(semRunning)
    /\ rq' = [rq EXCEPT ![r] = "fetching"]
    /\ LET zipEntries == submitted[r]
           lastZipEntry == zipEntries[Len(zipEntries)]
       IN  requests' = Append(requests, [by |-> "partition",
                                         start |-> zipEntries[1].firstByteAt,
                                         end |-> lastZipEntry.lastByteAt])
    /\ UNCHANGED << source, sequential, scanVars, upstreamVars, maxGap, partitionerVars, partitions,
                    fetcherVars, submitted, failures, consumerVars >>

\* a requestChunkRange whose range ends with the first record of the partition
Acquire_FirstRecordOnly(r) ==
    /\ rq[r] = "acquire"
    /\ \A q \in 1..(r - 1) : rq[q] # "acquire"
    /\ SemFree(semRunning)
    /\ semRunning' = SemAcquired(semRunning)
    /\ rq' = [rq EXCEPT ![r] = "fetching"]
    /\ LET zipEntries == submitted[r]
       IN  requests' = Append(requests, [by |-> "partition",
                                         start |-> zipEntries[1].firstByteAt,
                                         end |-> zipEntries[1].lastByteAt])
    /\ UNCHANGED << source, sequential, scanVars, upstreamVars, maxGap, partitionerVars, partitions,
                    fetcherVars, submitted, failures, consumerVars >>

\* requestChunkRange: sem.acquire() resolves and the range request is issued
Acquire(r) ==
    /\ rq[r] = "acquire"
    /\ \A q \in 1..(r - 1) : rq[q] # "acquire"
    /\ SemFree(semRunning)
    /\ semRunning' = SemAcquired(semRunning)
    /\ rq' = [rq EXCEPT ![r] = "fetching"]
    /\ LET zipEntries == submitted[r]
           lastZipEntry == zipEntries[Len(zipEntries)]
       IN  requests' = Append(requests, [by |-> "partition",
                                         start |-> zipEntries[1].firstByteAt,
                                         end |-> lastZipEntry.lastByteAt])
    /\ UNCHANGED << source, sequential, scanVars, upstreamVars, maxGap, partitionerVars, partitions,
                    fetcherVars, submitted, failures, consumerVars >>

\* a requestChunkRange that counts the request as done when its stream resolves
StreamResolve_Decrementing(r) ==
    /\ rq[r] = "fetching"
    /\ semRunning' = SemReleased(semRunning)
    /\ rq' = [rq EXCEPT ![r] = "resolved"]
    /\ requestsInProgress' = requestsInProgress - 1
    /\ UNCHANGED << source, sequential, scanVars, requests, upstreamVars, maxGap, partitionerVars,
                    partitions, isWritableClosed, byteStreams, writable, submitted, failures,
                    consumerVars >>

\* requestChunkRange: source.streamBytes resolved; finally release(); return substream
StreamResolve(r) ==
    /\ rq[r] = "fetching"
    /\ semRunning' = SemReleased(semRunning)
    /\ rq' = [rq EXCEPT ![r] = "resolved"]
    /\ UNCHANGED << source, sequential, scanVars, requests, upstreamVars, maxGap, partitionerVars,
                    partitions, fetcherVars, submitted, failures, consumerVars >>

\* a requestChunkRange that releases its slot only on the success path
StreamReject_Holding(r) ==
    /\ rq[r] = "fetching"
    /\ failures < MaxFailures
    /\ failures' = failures + 1
    /\ rq' = [rq EXCEPT ![r] = "rejected"]
    /\ UNCHANGED << source, sequential, scanVars, requests, upstreamVars, maxGap, partitionerVars,
                    partitions, fetcherVars, submitted, semRunning, consumerVars >>

\* requestChunkRange: source.streamBytes rejected; finally release(); throw e
StreamReject(r) ==
    /\ rq[r] = "fetching"
    /\ failures < MaxFailures
    /\ failures' = failures + 1
    /\ semRunning' = SemReleased(semRunning)
    /\ rq' = [rq EXCEPT ![r] = "rejected"]
    /\ UNCHANGED << source, sequential, scanVars, requests, upstreamVars, maxGap, partitionerVars,
                    partitions, fetcherVars, submitted, consumerVars >>

\* .then((byteStream) => byteStreams.push([zipEntries, byteStream]))
ThenPush(r) ==
    /\ rq[r] = "resolved"
    /\ rq' = [rq EXCEPT ![r] = "pushed"]
    /\ LET zipEntries == submitted[r]
           lastZipEntry == zipEntries[Len(zipEntries)]
       IN  byteStreams' = Append(byteStreams,
               [zipEntries |-> zipEntries,
                stream |-> streamBytes(source, zipEntries[1].firstByteAt,
                                       lastZipEntry.lastByteAt),
                req |-> r])
    /\ UNCHANGED << source, sequential, scanVars, requests, upstreamVars, maxGap, partitionerVars,
                    partitions, isWritableClosed, requestsInProgress, writable, submitted,
                    semRunning, failures, consumerVars >>

\* .catch((e) => controller.error(e)): a no-op unless the stream is writable
CatchError(r) ==
    /\ rq[r] = "rejected"
    /\ rq' = [rq EXCEPT ![r] = "caught"]
    /\ writable' = IF writable = "writable" THEN "errored" ELSE writable
    /\ UNCHANGED << source, sequential, scanVars, requests, upstreamVars, maxGap, partitionerVars,
                    partitions, isWritableClosed, requestsInProgress, byteStreams,
                    submitted, semRunning, failures, consumerVars >>

\* a finally that leaves requestsInProgress as it is
Finally_NotCounting(r) ==
    /\ rq[r] \in {"pushed", "caught"}
    /\ rq' = [rq EXCEPT ![r] = "done"]
    /\ UNCHANGED << source, sequential, scanVars, requests, upstreamVars, maxGap, partitionerVars,
                    partitions, isWritableClosed, requestsInProgress, byteStreams, writable,
                    submitted, semRunning, failures, consumerVars >>

\* .finally(() => --requestsInProgress)
Finally(r) ==
    /\ rq[r] \in {"pushed", "caught"}
    /\ rq' = [rq EXCEPT ![r] = "done"]
    /\ requestsInProgress' = requestsInProgress - 1
    /\ UNCHANGED << source, sequential, scanVars, requests, upstreamVars, maxGap, partitionerVars,
                    partitions, isWritableClosed, byteStreams, writable, submitted,
                    semRunning, failures, consumerVars >>

\* controller.close() / controller.enqueue() are allowed
CanCloseOrEnqueue(rd) == rd.state = "readable" /\ ~rd.closeRequested

\* ReadableStreamDefaultController.close()
closeReadable(rd) ==
    IF rd.queue = <<>>
    THEN [rd EXCEPT !.state = "closed", !.closeRequested = TRUE]
    ELSE [rd EXCEPT !.closeRequested = TRUE]

\* ReadableStreamDefaultController.error(), also run when pull() rejects
errorReadable(rd) ==
    IF rd.state = "readable" THEN [rd EXCEPT !.state = "errored", !.queue = <<>>] ELSE rd

\* a close() that does not record that the writable side is closed
WritableClose_Silent ==
    /\ flushed
    /\ partitions = <<>>
    /\ writable = "writable"
    /\ writable' = "closed"
    /\ UNCHANGED << source, sequential, scanVars, requests, upstreamVars, maxGap, partitionerVars,
                    partitions, isWritableClosed, requestsInProgress, byteStreams,
                    requestVars, consumerVars >>

\* close(): the pipe closes the writable once every partition has been written
WritableClose ==
    /\ flushed
    /\ partitions = <<>>
    /\ writable = "writable"
    /\ writable' = "closed"
    /\ isWritableClosed' = TRUE
    /\ UNCHANGED << source, sequential, scanVars, requests, upstreamVars, maxGap, partitionerVars,
                    partitions, requestsInProgress, byteStreams, requestVars,
                    consumerVars >>

\* abort(): the pipe aborts the writable when the record stream has errored
WritableAbort ==
    /\ cdEntries.state = "errored"
    /\ writable = "writable"
    /\ writable' = "errored"
    /\ isWritableClosed' = TRUE
    /\ readable' = IF CanCloseOrEnqueue(readable) THEN closeReadable(readable) ELSE readable
    /\ UNCHANGED << source, sequential, scanVars, requests, upstreamVars, maxGap, partitionerVars,
                    partitions, requestsInProgress, byteStreams, requestVars, pull,
                    received, consumer >>

\* abort(), when the pipe into the fetcher aborts the writable side because a
\* stream before it has errored (the caller's predicate threw on a record):
\* at any point before the partitioner has flushed
ProducerAbort ==
    /\ writable = "writable"
    /\ ~flushed
    /\ writable' = "errored"
    /\ isWritableClosed' = TRUE
    /\ readable' = IF CanCloseOrEnqueue(readable) THEN closeReadable(readable) ELSE readable
    /\ UNCHANGED << source, sequential, scanVars, requests, upstreamVars, maxGap, partitionerVars,
                    partitions, requestsInProgress, byteStreams, requestVars, pull,
                    received, consumer >>

(***************************************************************************)
(* fetchPartitionedEntries: the readable side                              *)
(***************************************************************************)
\* the stream calls pull() when nothing is queued for the consumer
ShouldCallPull(rd) == rd.state = "readable" /\ ~rd.closeRequested /\ rd.queue = <<>>

\* a loop head that closes without looking at the requests in progress
LoopHead_IgnoringRequests(bs) ==
    IF isWritableClosed /\ bs = <<>> THEN "close"
    ELSE IF bs = <<>> THEN "wait"
    ELSE "read"

\* the top of while (true), with bs the value of byteStreams
LoopHead(bs) ==
    IF isWritableClosed /\ bs = <<>> /\ requestsInProgress = 0 THEN "close"
    ELSE IF bs = <<>> THEN "wait"
    ELSE "read"

\* run the loop from its top to the next await, or to its return
EnterLoop(bs) ==
    /\ pull' = IF LoopHead(bs) = "close" THEN "idle" ELSE LoopHead(bs)
    /\ readable' = IF LoopHead(bs) # "close" THEN readable
                   ELSE IF CanCloseOrEnqueue(readable) THEN closeReadable(readable)
                   ELSE errorReadable(readable)

\* pull(controller) is called
PullCall ==
    /\ pull = "idle"
    /\ ShouldCallPull(readable)
    /\ EnterLoop(byteStreams)
    /\ UNCHANGED << source, sequential, scanVars, requests, upstreamVars, maxGap, partitionerVars,
                    partitions, fetcherVars, requestVars, received, consumer >>

\* the 50 ms timer fires: continue
PullWake ==
    /\ pull = "wait"
    /\ EnterLoop(byteStreams)
    /\ UNCHANGED << source, sequential, scanVars, requests, upstreamVars, maxGap, partitionerVars,
                    partitions, fetcherVars, requestVars, received, consumer >>

FileOf(entry, req) ==
    [fileName |-> entry.fileName, isDirectory |-> entry.isDirectory,
     body |-> entry.body, req |-> req]

\* a check that lets every decoded record pass
isOneOfRequestedFiles_Any(zipEntries, file) == TRUE

\* zipEntries.find((entry) => entry.fileName === file.fileName)
isOneOfRequestedFiles(zipEntries, file) ==
    \E k \in DOMAIN zipEntries : zipEntries[k].fileName = file.fileName

\* a pull that drops the head byte stream after every entry it emits
PullRead_ShiftingAlways ==
    /\ pull = "read"
    /\ \E r \in {readFileEntry(source, byteStreams[1].stream, FALSE)} :
       LET zipEntries == byteStreams[1].zipEntries
           advanced == [byteStreams EXCEPT ![1].stream = r.stream]
       IN  IF r.threw
           THEN /\ byteStreams' = advanced
                /\ pull' = "idle"
                /\ readable' = errorReadable(readable)
           ELSE IF IsNull(r.entry)
           THEN /\ byteStreams' = Tail(byteStreams)
                /\ EnterLoop(Tail(byteStreams))
           ELSE IF ~isOneOfRequestedFiles(zipEntries, r.entry)
           THEN /\ byteStreams' = advanced
                /\ EnterLoop(advanced)
           ELSE /\ byteStreams' = Tail(byteStreams)
                /\ pull' = "idle"
                /\ readable' =
                       IF CanCloseOrEnqueue(readable)
                       THEN [readable EXCEPT
                               !.queue = Append(@, FileOf(r.entry, byteStreams[1].req))]
                       ELSE errorReadable(readable)
    /\ UNCHANGED << source, sequential, scanVars, requests, upstreamVars, maxGap, partitionerVars,
                    partitions, isWritableClosed, requestsInProgress, writable,
                    requestVars, received, consumer >>

\* readFileEntry(byteStreams[0]) has settled
PullRead ==
    /\ pull = "read"
    /\ \E r \in {readFileEntry(source, byteStreams[1].stream, FALSE)} :
       LET zipEntries == byteStreams[1].zipEntries
           advanced == [byteStreams EXCEPT ![1].stream = r.stream]
       IN  IF r.threw
           THEN /\ byteStreams' = advanced
                /\ pull' = "idle"
                /\ readable' = errorReadable(readable)
           ELSE IF IsNull(r.entry)
           THEN /\ byteStreams' = Tail(byteStreams)
                /\ EnterLoop(Tail(byteStreams))
           ELSE IF ~isOneOfRequestedFiles(zipEntries, r.entry)
           THEN /\ byteStreams' = advanced
                /\ EnterLoop(advanced)
           ELSE /\ byteStreams' = advanced
                /\ pull' = "idle"
                /\ readable' =
                       IF CanCloseOrEnqueue(readable)
                       THEN [readable EXCEPT
                               !.queue = Append(@, FileOf(r.entry, byteStreams[1].req))]
                       ELSE errorReadable(readable)
    /\ UNCHANGED << source, sequential, scanVars, requests, upstreamVars, maxGap, partitionerVars,
                    partitions, isWritableClosed, requestsInProgress, writable,
                    requestVars, received, consumer >>

\* for await (const file of files): one reader.read()
ConsumerRead ==
    /\ consumer = "reading"
    /\ IF readable.queue # <<>>
       THEN /\ received' = Append(received, Head(readable.queue))
            /\ readable' = [readable EXCEPT
                              !.queue = Tail(@),
                              !.state = IF readable.closeRequested /\ Tail(readable.queue) = <<>>
                                        THEN "closed" ELSE @]
            /\ UNCHANGED consumer
       ELSE /\ readable.state # "readable"
            /\ consumer' = IF readable.state = "closed" THEN "done" ELSE "failed"
            /\ UNCHANGED << readable, received >>
    /\ UNCHANGED << source, sequential, scanVars, requests, upstreamVars, maxGap, partitionerVars,
                    partitions, fetcherVars, requestVars, pull >>

Next ==
    \/ ScanChunk
    \/ ScanBackfill
    \/ CentralDirectoryPull
    \/ FilterTransform
    \/ PartitionTransform
    \/ PartitionFlush
    \/ Write
    \/ \E r \in DOMAIN rq : Acquire(r)
    \/ \E r \in DOMAIN rq : StreamResolve(r)
    \/ \E r \in DOMAIN rq : StreamReject(r)
    \/ \E r \in DOMAIN rq : ThenPush(r)
    \/ \E r \in DOMAIN rq : CatchError(r)
    \/ \E r \in DOMAIN rq : Finally(r)
    \/ WritableClose
    \/ WritableAbort
    \/ PullCall
    \/ PullWake
    \/ PullRead
    \/ ConsumerRead

Spec == Init /\ [][Next]_vars

(***************************************************************************)
(* partitionNearbyEntries on its own: the records to partition are given   *)
(***************************************************************************)
MaxRecords == 3

\* a central directory record as readCentralDirectory returns it
CDRecord(fileName, firstByteAt, compressedSize) ==
    [signature |-> SIGNATURE_CENTRAL_DIRECTORY_START,
     compressionMethod |-> 0,
     compressedSize |-> compressedSize,
     uncompressedSize |-> compressedSize,
     fileNameLength |-> Len(fileName),
     extraLength |-> 0,
     fileCommentLength |-> 0,
     firstByteAt |-> firstByteAt,
     lastByteAt |-> lastByteAt(firstByteAt, Len(fileName), 0, 0, compressedSize),
     fileName |-> fileName,
     isDirectory |-> endsWithSlash(fileName)]

PartitionRecords ==
    {CDRecord(<<97>>, firstByteAt, compressedSize) :
        firstByteAt \in {0, 40, 20000}, compressedSize \in {0, 8}}

PartitionGaps == {DefaultMaxGap, 0, 64}

EmptySource == Source(Zip(<<>>, 0))

\* the state once the central directory stream has ended and `records` passed
\* the filter
InitAfterFilterOf(src, records, gap) ==
    /\ source = src
    /\ scan = [pc |-> "found", chunkStart |-> 0, centralDirectory |-> <<>>,
               dirStart |-> 0, chunks |-> 1]
    /\ requests = << [by |-> "scan", start |-> 0, end |-> SourceLength(src) - 1] >>
    /\ centralDirectoryStream = NoStream
    /\ cdEntries = [state |-> "closed", queue |-> <<>>]
    /\ filtered = records
    /\ selected = records
    /\ maxGap = gap
    /\ lastFileEndsAt = 0
    /\ currentChunk = <<>>
    /\ flushed = FALSE
    /\ partitions = <<>>
    /\ isWritableClosed = FALSE
    /\ requestsInProgress = 0
    /\ byteStreams = <<>>
    /\ writable = "writable"
    /\ submitted = <<>>
    /\ rq = <<>>
    /\ semRunning = 0
    /\ failures = 0
    /\ readable = [state |-> "readable", queue |-> <<>>, closeRequested |-> FALSE]
    /\ pull = "idle"
    /\ received = <<>>
    /\ consumer = "reading"
    /\ sequential = [stream |-> streamBytes(src, 0, SourceLength(src) - 1),
                     state |-> "readable", entries |-> <<>>]

InitAfterFilter(records, gap) == InitAfterFilterOf(EmptySource, records, gap)

InitPartition ==
    \E records \in SeqsUpTo(PartitionRecords, MaxRecords), gap \in PartitionGaps :
        InitAfterFilter(records, gap)

NextPartition ==
    \/ PartitionTransform
    \/ PartitionFlush

SpecPartition == InitPartition /\ [][NextPartition]_vars

(***************************************************************************)
(* The central directory path on its own, over archives whose records have *)
(* extra fields, file comments and bodies of several lengths                *)
(***************************************************************************)
MaxDirectoryFiles == 2

DirectoryFiles ==
    { [File(<<97, 98>>, body, 0, commentLength) EXCEPT !.extraLength = extraLength] :
        body \in {<<>>, <<7, 8>>}, commentLength \in {0, 2}, extraLength \in {0, 3} }

DirectorySources == {Zip(fs, 0) : fs \in SeqsUpTo(DirectoryFiles, MaxDirectoryFiles)}

InitDirectory == \E d \in DirectorySources : InitWith(Source(d), DefaultMaxGap)

NextDirectory ==
    \/ ScanChunk
    \/ CentralDirectoryPull
    \/ FilterTransform

SpecDirectory == InitDirectory /\ [][NextDirectory]_vars

(***************************************************************************)
(* The writable side of the fetcher fed by the partitioner, with every     *)
(* maxGap of PartitionGaps: partitions of several records                  *)
(***************************************************************************)
NextRequests ==
    \/ PartitionTransform
    \/ PartitionFlush
    \/ Write
    \/ \E r \in DOMAIN rq : Acquire(r)
    \/ \E r \in DOMAIN rq : StreamResolve(r)

SpecRequests == InitPartition /\ [][NextRequests]_vars

(***************************************************************************)
(* requestChunkRange on its own: more partitions than the semaphore has    *)
(* slots                                                                   *)
(***************************************************************************)
MaxGateWrites == 11

\* MaxGateWrites records far enough apart for each to be a partition
GateRecords == [k \in 1..MaxGateWrites |-> CDRecord(<<97>>, (k - 1) * 20000, 8)]

InitGate == InitAfterFilter(GateRecords, DefaultMaxGap)

NextGate ==
    \/ PartitionTransform
    \/ PartitionFlush
    \/ Write
    \/ \E r \in DOMAIN rq : Acquire(r)
    \/ \E r \in DOMAIN rq : StreamResolve(r)
    \/ \E r \in DOMAIN rq : StreamReject(r)

SpecGate == InitGate /\ [][NextGate]_vars

(***************************************************************************)
(* The sequential path: zipEntries and readEntireZip over the whole source *)
(***************************************************************************)
\* the entries zipEntries(stream) enqueues before it closes or errors
RECURSIVE zipEntries(_, _)
zipEntries(src, st) ==
    LET r == readNextEntry(src, st)
    IN  IF r.threw \/ IsNull(r.entry) THEN <<>>
        ELSE << r.entry >> \o zipEntries(src, r.stream)

\* readEntireZip(stream, predicate) with the default predicate
readEntireZip(src) ==
    SelectSeq(zipEntries(src, streamBytes(src, 0, SourceLength(src) - 1)),
              LAMBDA entry : entry.signature = SIGNATURE_FILE /\ predicate(entry))

(***************************************************************************)
(* fetchPartitionedEntries with its environment: a producer that may abort *)
(* and a consumer that may leave its loop early                            *)
(***************************************************************************)
\* the for-await loop is left after an entry: the iterator cancels the stream,
\* which has no cancel() of its own
ConsumerCancel ==
    /\ consumer = "reading"
    /\ received # <<>>
    /\ readable.state = "readable"
    /\ readable' = [readable EXCEPT !.state = "closed", !.queue = <<>>]
    /\ consumer' = "cancelled"
    /\ UNCHANGED << source, sequential, scanVars, requests, upstreamVars, maxGap,
                    partitionerVars, partitions, fetcherVars, requestVars, pull,
                    received >>

\* the records centralDirectoryEntries reads from the stream st
RECURSIVE centralDirectoryRecords(_, _)
centralDirectoryRecords(src, st) ==
    LET r == readCentralDirectory(src, st, FALSE)
    IN  IF IsNull(r.entry) THEN <<>>
        ELSE << r.entry >> \o centralDirectoryRecords(src, r.stream)

FetcherSources == PipelineSources

InitFetcher ==
    \E d \in FetcherSources :
        InitAfterFilterOf(
            Source(d),
            SelectSeq(centralDirectoryRecords(
                          Source(d),
                          streamBytes(Source(d), Source(d).dirAt,
                                      SourceLength(Source(d)) - 1)),
                      predicate),
            DefaultMaxGap)

NextFetcher ==
    \/ PartitionTransform
    \/ PartitionFlush
    \/ Write
    \/ \E r \in DOMAIN rq : Acquire(r)
    \/ \E r \in DOMAIN rq : StreamResolve(r)
    \/ \E r \in DOMAIN rq : StreamReject(r)
    \/ \E r \in DOMAIN rq : ThenPush(r)
    \/ \E r \in DOMAIN rq : CatchError(r)
    \/ \E r \in DOMAIN rq : Finally(r)
    \/ WritableClose
    \/ ProducerAbort
    \/ PullCall
    \/ PullWake
    \/ PullRead
    \/ ConsumerRead
    \/ ConsumerCancel

\* the tasks the event loop runs by itself, the settling of readFileEntry
\* apart: everything but the producer's abort and the consumer's early exit
FetcherProgress ==
    \/ PartitionTransform
    \/ PartitionFlush
    \/ Write
    \/ \E r \in DOMAIN rq : Acquire(r)
    \/ \E r \in DOMAIN rq : StreamResolve(r)
    \/ \E r \in DOMAIN rq : StreamReject(r)
    \/ \E r \in DOMAIN rq : ThenPush(r)
    \/ \E r \in DOMAIN rq : CatchError(r)
    \/ \E r \in DOMAIN rq : Finally(r)
    \/ WritableClose
    \/ PullCall
    \/ PullWake
    \/ ConsumerRead

\* await readFileEntry(...) is pending exactly while pull = "read", and the
\* decode of a stream that has resolved always settles
PullReadPending == pull = "read"

\* while the event loop has a task to run, it runs one; the second conjunct is
\* weak fairness of PullRead, with PullReadPending for its enabling condition
FairFetcher ==
    /\ WF_vars(FetcherProgress)
    /\ ([]<>(~PullReadPending) \/ []<><<PullRead>>_vars)

SpecFetcher == InitFetcher /\ [][NextFetcher]_vars /\ FairFetcher

(***************************************************************************)
(* zipEntries as a stream of its own: one pull() per step                  *)
(***************************************************************************)
\* zipEntries: pull(controller)
ZipEntriesPull ==
    /\ sequential.state = "readable"
    /\ LET r == readNextEntry(source, sequential.stream)
       IN  sequential' =
               IF r.threw
               THEN [sequential EXCEPT !.stream = r.stream, !.state = "errored"]
               ELSE IF IsNull(r.entry)
               THEN [sequential EXCEPT !.stream = r.stream, !.state = "closed"]
               ELSE [sequential EXCEPT !.stream = r.stream,
                                       !.entries = Append(@, r.entry)]
    /\ UNCHANGED << source, scanVars, requests, upstreamVars, maxGap, partitionerVars,
                    partitions, fetcherVars, requestVars, consumerVars >>

NextSequential == ZipEntriesPull

SpecSequential == Init /\ [][NextSequential]_vars

(***************************************************************************)
(* Properties                                                              *)
(***************************************************************************)
\* the entries the selective path has emitted so far, in order
Emitted == received \o readable.queue

Names(entries) == {entries[k].fileName : k \in DOMAIN entries}

RECURSIVE Flatten(_)
Flatten(seqs) == IF seqs = <<>> THEN <<>> ELSE Head(seqs) \o Flatten(Tail(seqs))

\* C1: the entries of a partition written earlier are all emitted before the
\* entries of a partition written later, whatever the order in which the
\* range requests resolve.
C1_SubmissionOrder ==
    \A i, j \in DOMAIN Emitted : i < j => Emitted[i].req <= Emitted[j].req

\* the requests that hold a slot of the semaphore
Holding == {r \in DOMAIN rq : rq[r] = "fetching"}

\* C2: at no time do more than SemConcurrency range requests hold a slot of
\* the semaphore.
C2_AtMostNHeld == Cardinality(Holding) <= SemConcurrency

C2_AllSlotsHeld ==
    /\ Cardinality(Holding) = SemConcurrency
    /\ \E r \in DOMAIN rq : rq[r] = "acquire"

\* C3: once the partitioner has flushed, the concatenation of the partitions
\* it emitted, in order, is the sequence of records that entered it: every
\* record is in exactly one partition, once, in input order.
C3_PartitionCover == flushed => Flatten(submitted \o partitions) = selected

C3_SeveralPartitions ==
    /\ flushed
    /\ Len(selected) = MaxRecords
    /\ \E k \in DOMAIN partitions : Len(partitions[k]) >= 2
    /\ \E k \in DOMAIN partitions : Len(partitions[k]) = 1

\* the scan requests that started at offset 0
ScansOfStart == {k \in DOMAIN requests : requests[k].by = "scan" /\ requests[k].start = 0}

\* C4: over a source that holds no end-of-central-directory signature, the
\* scan ends with 'Central directory not found' once the chunk at offset 0
\* has been scanned, and requests that chunk only once.
C4_ScanStopsAtStart ==
    (source.kind = "raw" /\ ScansOfStart # {})
        => (scan.pc = "notfound" /\ Cardinality(ScansOfStart) = 1)

\* the first segments of segs are the bytes lo..hi of the source
RECURSIVE StartsWithRange(_, _, _)
StartsWithRange(segs, lo, hi) ==
    /\ segs # <<>>
    /\ Head(segs).lo = lo
    /\ \/ Head(segs).hi >= hi
       \/ StartsWithRange(Tail(segs), Head(segs).hi + 1, hi)

\* an archive whose trailing comment has length 0, the chunk size minus one,
\* or more than the chunk size
CommentCase(src) ==
    /\ src.kind = "zip"
    /\ \/ src.pad = 0
       \/ src.pad = CENTRAL_DIRECTORY_END_SCAN_CHUNK_SIZE - 1
       \/ src.pad > CENTRAL_DIRECTORY_END_SCAN_CHUNK_SIZE

\* C5: for an archive whose comment has length 0, chunk size - 1, or more
\* than the chunk size, the scan does not fail, needs at most two chunks, and
\* returns a stream that starts with the central directory and the
\* end-of-central-directory record.
C5_EndRecordLocated ==
    CommentCase(source) =>
        /\ scan.pc \in {"scan", "backfill", "found"}
        /\ scan.pc = "scan" => scan.chunks < 2
        /\ scan.chunks <= 2
        /\ scan.pc = "found" =>
               StartsWithRange(scan.centralDirectory, source.dirAt,
                               source.dirAt + source.dirLength + 21)

C5_FoundInSecondChunk ==
    /\ CommentCase(source)
    /\ source.pad > CENTRAL_DIRECTORY_END_SCAN_CHUNK_SIZE
    /\ source.dirLength > 0
    /\ scan.pc = "found"
    /\ scan.chunks = 2

\* C6: once a range request has failed, the consumer's enumeration does not
\* end cleanly.
C6_FailureIsTerminalError ==
    failures > 0 => (consumer # "done" /\ readable.state # "closed")

\* C7: for a well-formed archive read to its clean end, the names the
\* selective path emitted are the names the sequential path emits.
C7_SameNames ==
    (source.kind = "zip" /\ consumer = "done" /\ failures = 0)
        => Names(received) = Names(readEntireZip(source))

\* C8: every file the selective path emits has the body the sequential path
\* exposes for the file of that name.
C8_SameBodies ==
    source.kind = "zip" =>
        LET files == readEntireZip(source)
        IN  \A k \in DOMAIN Emitted :
                \A j \in DOMAIN files :
                    files[j].fileName = Emitted[k].fileName
                        => files[j].body = Emitted[k].body

\* C9: of the archive a.txt (10 bytes, stored), dir/ (0 bytes), dir/b.txt
\* (20 bytes, deflated) the selective path with the default predicate emits
\* a.txt and then dir/b.txt, each once, with the bodies of the archive.
C9_ScenarioOutput ==
    (source = Source(ScenarioArchive) /\ consumer = "done" /\ failures = 0)
        => /\ Len(received) = 2
           /\ received[1].fileName = ScenarioArchive.files[1].fileName
           /\ received[1].body = ScenarioArchive.files[1].body
           /\ received[2].fileName = ScenarioArchive.files[3].fileName
           /\ received[2].body = ScenarioArchive.files[3].body

\* C10: the filter drops a record exactly when its name ends with '/' and its
\* uncompressed size is 0.
C10_DefaultPredicate ==
    [][ (cdEntries.queue # <<>> /\ cdEntries'.queue = Tail(cdEntries.queue))
          => LET e == Head(cdEntries.queue)
             IN  (selected' = selected)
                   <=> (endsWithSlash(e.fileName) /\ e.uncompressedSize = 0) ]_vars

C10_AllFourKinds ==
    /\ \E k \in DOMAIN selected :
           selected[k].isDirectory /\ selected[k].uncompressedSize # 0
    /\ \E k \in DOMAIN selected :
           ~selected[k].isDirectory /\ selected[k].uncompressedSize = 0

\* the magic numbers readNextEntry knows
KnownSignatures ==
    {SIGNATURE_FILE, SIGNATURE_CENTRAL_DIRECTORY_START, SIGNATURE_CENTRAL_DIRECTORY_END}

\* the signature the next pull of zipEntries reads
NextSignature == getUint32(readBytes(source, sequential.stream, 4), 0)

\* C13: reading exactly 4 bytes from a stream that ends after 1 to 3 bytes
\* fails: it yields no 4-byte result.
C13_ShortReadFails ==
    (sequential.state = "readable" /\ Remaining(sequential.stream) \in 1..3)
        => Len(readBytes(source, sequential.stream, 4)) # 4

\* C14: when the central directory holds a record whose signature is not the
\* central directory signature, the stream of central directory records
\* does not end in a clean close.
C14_BadSignatureIsFatal == source.kind = "corrupt" => cdEntries.state # "closed"

\* C15: in the sequential path a signature that is none of the three magic
\* numbers closes the entry stream without error and without emitting a
\* record, and nothing is emitted once the stream is closed.
C15_UnknownSignatureEnds ==
    /\ [][ (sequential.state = "readable" /\ sequential'.state # "readable"
              /\ NextSignature \notin KnownSignatures)
             => (sequential'.state = "closed"
                   /\ sequential'.entries = sequential.entries) ]_vars
    /\ [][ sequential.state = "closed" => sequential' = sequential ]_vars

C15_ClosedBeforeTheEnd ==
    /\ sequential.state = "closed"
    /\ sequential.entries # <<>>
    /\ Remaining(sequential.stream) > 4
    /\ source.kind = "corrupt"

\* C16: after readFileEntry has decoded a local file record that lies in the
\* stream from offset s on, the stream position is s + 30 + fileNameLength +
\* extraLength + compressedSize, for method 0, method 8 and compressedSize 0.
C16_CursorAfterRecord ==
    [][ (Len(sequential'.entries) > Len(sequential.entries))
          => LET entry == sequential'.entries[Len(sequential'.entries)]
                 s == sequential.stream.pos
                 end == s + 30 + entry.fileNameLength + entry.extraLength
                          + entry.compressedSize
             IN  (entry.signature = SIGNATURE_FILE
                    /\ end <= SegsLen(sequential.stream.segs))
                     => sequential'.stream.pos = end ]_vars

C16_ThreeKindsDecoded ==
    /\ \E k \in DOMAIN sequential.entries :
           /\ sequential.entries[k].signature = SIGNATURE_FILE
           /\ sequential.entries[k].compressionMethod = 0
           /\ sequential.entries[k].compressedSize > 0
    /\ \E k \in DOMAIN sequential.entries :
           /\ sequential.entries[k].signature = SIGNATURE_FILE
           /\ sequential.entries[k].compressionMethod = 8
    /\ \E k \in DOMAIN sequential.entries :
           /\ sequential.entries[k].signature = SIGNATURE_FILE
           /\ sequential.entries[k].compressedSize = 0

\* abort() of the fetcher's writable side has run
Aborted == isWritableClosed /\ writable = "errored"

\* C11: once the writable side has been aborted, the consumer's sequence
\* reaches a terminal state and the pull comes to rest, whatever pull and
\* range requests were in progress at the abort.
C11_AbortTerminates ==
    Aborted ~> (readable.state \in {"closed", "errored"} /\ pull = "idle")

C11_AbortDuringWork ==
    /\ Aborted
    /\ pull \in {"wait", "read"}
    /\ \E r \in DOMAIN rq : rq[r] = "fetching"

\* C12: once the consumer has cancelled the output sequence, no range
\* request is in flight, whether it was issued before the cancellation or
\* after it, and no slot of the semaphore is held.
C12_CancelReachesFetcher ==
    consumer = "cancelled" =>
        /\ \A r \in DOMAIN rq : rq[r] # "fetching"
        /\ semRunning = 0

\* C17: when no abort occurred and the consumer did not cancel, the output
\* sequence is closed only when the writable side is closed, no fetched
\* partition is queued and no range request is unsettled.
C17_ClosedOnlyWhenDrained ==
    ((readable.closeRequested \/ readable.state = "closed")
       /\ ~Aborted /\ consumer # "cancelled")
        => /\ isWritableClosed
           /\ writable = "closed"
           /\ byteStreams = <<>>
           /\ requestsInProgress = 0
           /\ \A r \in DOMAIN rq : rq[r] \in {"none", "done"}

C17_ClosedAfterTwoRequests ==
    /\ readable.state = "closed"
    /\ ~Aborted
    /\ Len(received) >= 2
    /\ Cardinality({r \in DOMAIN rq : rq[r] = "done"}) >= 2

\* every record that passed the filter has been received by name
AllReceived ==
    \A k \in DOMAIN selected :
        Cardinality({j \in DOMAIN received : received[j].fileName = selected[k].fileName})
          >= Cardinality({i \in DOMAIN selected : selected[i].fileName = selected[k].fileName})

\* C18: once the writable side is closed, and unless a range request fails
\* or the consumer cancels, the consumer receives every requested entry and
\* then the end of the sequence; a pull that waits with nothing fetched
\* while work is pending stays waiting, and closes and emits nothing.
C18_ClosedThenDelivered ==
    /\ (writable = "closed")
         ~> (failures > 0 \/ consumer = "cancelled"
               \/ (consumer = "done" /\ AllReceived))
    /\ [][ (pull = "wait" /\ byteStreams = <<>>
              /\ (~isWritableClosed \/ requestsInProgress > 0))
             => /\ byteStreams' = <<>> => pull' = "wait"
                /\ readable'.queue = readable.queue
                /\ (readable' # readable
                      => (writable' # writable \/ consumer' # consumer)) ]_vars

C18_DeliveredAfterWaiting ==
    /\ consumer = "done"
    /\ writable = "closed"
    /\ failures = 0
    /\ Len(received) >= 2
    /\ AllReceived

\* C19: an entry is emitted only from the byte stream at the head of
\* byteStreams, and the head is removed only when decoding from it yields no
\* record.
C19_HeadOnly ==
    [][ /\ (Len(readable'.queue) > Len(readable.queue))
            => /\ byteStreams # <<>>
               /\ readable'.queue[Len(readable'.queue)].req = byteStreams[1].req
        /\ (Len(byteStreams') < Len(byteStreams))
            => /\ byteStreams' = Tail(byteStreams)
               /\ readFileEntry(source, byteStreams[1].stream, FALSE).entry = NULL
               /\ ~readFileEntry(source, byteStreams[1].stream, FALSE).threw ]_vars

C19_HeadExhaustedBehindIt ==
    /\ Len(byteStreams) >= 1
    /\ \E k \in DOMAIN received : received[k].req # byteStreams[1].req
    /\ \E r \in DOMAIN rq : rq[r] = "done"
    /\ pull = "read"

\* C20: every emitted entry carries the name of a record of the partition
\* whose byte stream it was decoded from.
C20_EmittedWereRequested ==
    \A k \in DOMAIN Emitted :
        \E j \in DOMAIN submitted[Emitted[k].req] :
            submitted[Emitted[k].req][j].fileName = Emitted[k].fileName

\* the local file records decoded from st before the position pos
RECURSIVE DecodedBefore(_, _, _)
DecodedBefore(src, st, pos) ==
    LET r == readFileEntry(src, st, FALSE)
    IN  IF st.pos >= pos \/ r.threw \/ IsNull(r.entry) THEN <<>>
        ELSE << r.entry >> \o DecodedBefore(src, r.stream, pos)

C20_ForeignRecordSkipped ==
    /\ byteStreams # <<>>
    /\ LET head == byteStreams[1]
           decoded == DecodedBefore(source, [head.stream EXCEPT !.pos = 0],
                                    head.stream.pos)
       IN  \E k \in DOMAIN decoded :
               /\ ~isOneOfRequestedFiles(head.zipEntries, decoded[k])
               /\ \A j \in DOMAIN Emitted :
                      Emitted[j].req = head.req
                          => Emitted[j].fileName # decoded[k].fileName

\* the partitions the partitioner has emitted so far
EmittedPartitions == submitted \o partitions

\* the emitted partitions and, until flush has emitted it, the current chunk
Chunks ==
    IF flushed THEN EmittedPartitions ELSE EmittedPartitions \o << currentChunk >>

\* the records the partitioner has taken in so far, in the order of arrival
Partitioned == Flatten(Chunks)

\* the partition that holds the k-th record taken in: emitted partitions are
\* numbered from 1, the current chunk comes after them
RECURSIVE PartitionOf(_, _, _)
PartitionOf(chunks, k, n) ==
    IF k <= Len(Head(chunks)) THEN n
    ELSE PartitionOf(Tail(chunks), k - Len(Head(chunks)), n + 1)

\* C21: a record starts a new partition exactly when its firstByteAt is
\* greater than maxGap plus the lastByteAt of the record taken in before it
\* (0 before the first record), otherwise it joins the partition of that
\* record; the records keep their input order within and across partitions.
C21_SplitExactlyWhenTooFar ==
    LET chunks == Chunks
        recs == Partitioned
    IN  /\ recs \o filtered = selected
        /\ lastFileEndsAt = IF recs = <<>> THEN 0 ELSE recs[Len(recs)].lastByteAt
        /\ \A k \in DOMAIN recs :
              LET before == IF k = 1 THEN 0 ELSE recs[k - 1].lastByteAt
                  split == IF k = 1 THEN PartitionOf(chunks, k, 1) > 1
                           ELSE PartitionOf(chunks, k, 1) # PartitionOf(chunks, k - 1, 1)
              IN  /\ split <=> (recs[k].firstByteAt > before + maxGap)
                  /\ k > 1 => PartitionOf(chunks, k, 1)
                                 \in {PartitionOf(chunks, k - 1, 1),
                                      PartitionOf(chunks, k - 1, 1) + 1}

\* a record that begins exactly at lastFileEndsAt + maxGap has joined the
\* partition of the record before it, and another record has started a new one
C21_JoinedAtTheLimit ==
    /\ flushed
    /\ \E k \in DOMAIN EmittedPartitions :
          \E j \in 2..Len(EmittedPartitions[k]) :
              EmittedPartitions[k][j].firstByteAt
                  = EmittedPartitions[k][j - 1].lastByteAt + maxGap
    /\ Cardinality({k \in DOMAIN EmittedPartitions : EmittedPartitions[k] # <<>>}) >= 2

\* C22: for a non-empty input, every partition the partitioner emits is a
\* non-empty sequence of records, in the order the records came in.
C22_PartitionsNonEmpty ==
    selected # <<>> =>
        /\ Partitioned \o filtered = selected
        /\ \A k \in DOMAIN EmittedPartitions : EmittedPartitions[k] # <<>>

\* write() is called with an empty partition
WriteOfEmpty ==
    /\ partitions # <<>>
    /\ Head(partitions) = <<>>
    /\ submitted' = Append(submitted, <<>>)

\* C23: a write of an empty partition issues no range request, takes no slot
\* of the semaphore, and leaves requestsInProgress, byteStreams and the output
\* sequence as they are; no request is ever made for it; and when every
\* partition written was empty, the output sequence still ends once the
\* writable is closed.
C23_EmptyWriteIsNoOp ==
    /\ [][ WriteOfEmpty =>
              /\ requests' = requests
              /\ semRunning' = semRunning
              /\ requestsInProgress' = requestsInProgress
              /\ byteStreams' = byteStreams
              /\ isWritableClosed' = isWritableClosed
              /\ writable' = writable
              /\ readable' = readable
              /\ pull' = pull ]_vars
    /\ [](\A r \in DOMAIN rq : submitted[r] = <<>> => rq[r] = "none")
    /\ (writable = "closed" /\ \A r \in DOMAIN submitted : submitted[r] = <<>>)
          ~> (consumer = "done")

\* the sequence has ended after an empty partition and two others were written
C23_EndedAfterEmptyWrite ==
    /\ consumer = "done"
    /\ Len(submitted) >= 3
    /\ submitted[1] = <<>>
    /\ Len(received) >= 2

\* the requests that hold a slot: issued, and source.streamBytes not settled
Fetching == {r \in DOMAIN rq : rq[r] = "fetching"}

\* C24: the slots held are exactly those of the requests whose
\* source.streamBytes has not settled: a slot is released, once, in the step
\* in which the request resolves or rejects, whether or not the bytes of the
\* stream have been read, and a settled request holds none.
C24_SlotHeldOnlyWhileIssuing ==
    /\ [](semRunning = Cardinality(Fetching))
    /\ [][ \A r \in DOMAIN rq :
              (rq[r] = "fetching" /\ rq'[r] # "fetching")
                  => /\ semRunning' = SemReleased(semRunning)
                     /\ rq'[r] \in {"resolved", "rejected"} ]_vars

\* after a request has failed, every slot of the semaphore is held again
C24_FullCapacityAfterFailure ==
    /\ failures > 0
    /\ \E r \in DOMAIN rq : rq[r] = "rejected"
    /\ semRunning = SemConcurrency
    /\ Cardinality(Fetching) = SemConcurrency

\* the range requests made by requestChunkRange, in the order of their issue
PartitionRequests == SelectSeq(requests, LAMBDA q : q.by = "partition")

\* the non-empty partitions written so far, in the order of the writes
NonEmpty(chunk) == chunk # <<>>
WrittenNonEmpty == SelectSeq(submitted, NonEmpty)

\* C25: every non-empty partition written has at most one range request,
\* exactly one as soon as its slot was granted, and that request spans the
\* bytes from the firstByteAt of the partition's first record to the
\* lastByteAt of its last record; an empty partition has none.
C25_OneRequestPerPartition ==
    /\ Len(PartitionRequests) = Cardinality({r \in DOMAIN rq : rq[r] \notin {"none", "acquire"}})
    /\ Len(PartitionRequests) <= Len(WrittenNonEmpty)
    /\ \A r \in DOMAIN rq : (rq[r] = "none") <=> (submitted[r] = <<>>)
    /\ \A k \in DOMAIN PartitionRequests :
          LET chunk == WrittenNonEmpty[k]
          IN  /\ PartitionRequests[k].start = chunk[1].firstByteAt
              /\ PartitionRequests[k].end = chunk[Len(chunk)].lastByteAt

\* requests were issued for a partition of several records and for another
C25_RequestSpansSeveralRecords ==
    /\ Len(PartitionRequests) >= 2
    /\ Len(PartitionRequests) = Len(WrittenNonEmpty)
    /\ flushed /\ partitions = <<>>
    /\ \E k \in DOMAIN WrittenNonEmpty :
          /\ Len(WrittenNonEmpty[k]) >= 2
          /\ WrittenNonEmpty[k][1].lastByteAt # WrittenNonEmpty[k][2].lastByteAt

\* the central directory records decoded so far and still in the model
DecodedRecords ==
    {cdEntries.queue[k] : k \in DOMAIN cdEntries.queue}
      \cup {selected[k] : k \in DOMAIN selected}

\* C26: the lastByteAt of a decoded central directory record is firstByteAt +
\* FILE_HEADER_SIZE + fileNameLength + extraLength + fileCommentLength +
\* compressedSize - 1, and when the local record has the name and extra
\* lengths of the central directory record, every byte of the local record
\* lies in [firstByteAt, lastByteAt]: the local record decoded from that
\* range is the one decoded from the rest of the archive.
C26_RangeCoversLocalRecord ==
    \A rec \in DecodedRecords :
        LET whole == readFileEntry(source,
                         streamBytes(source, rec.firstByteAt, SourceLength(source) - 1),
                         FALSE)
            ranged == readFileEntry(source,
                          streamBytes(source, rec.firstByteAt, rec.lastByteAt), FALSE)
        IN  /\ rec.lastByteAt = rec.firstByteAt + FILE_HEADER_SIZE + rec.fileNameLength
                                   + rec.extraLength + rec.fileCommentLength
                                   + rec.compressedSize - 1
            /\ (/\ ~IsNull(whole.entry)
                /\ whole.entry.fileNameLength = rec.fileNameLength
                /\ whole.entry.extraLength = rec.extraLength)
                 => /\ rec.firstByteAt + whole.stream.pos - 1 <= rec.lastByteAt
                    /\ ranged.entry = whole.entry
                    /\ ranged.stream.pos = whole.stream.pos

\* the record of a second file with an extra field, a comment and a body
C26_RecordWithEveryField ==
    \E rec \in DecodedRecords :
        /\ rec.firstByteAt > 0
        /\ rec.extraLength > 0
        /\ rec.fileCommentLength > 0
        /\ rec.compressedSize > 0
        /\ rec.fileNameLength = 2

\* segs holds the bytes lo..hi of the source, each once and in order
RECURSIVE ExactRange(_, _, _)
ExactRange(segs, lo, hi) ==
    IF segs = <<>> THEN lo = hi + 1
    ELSE IF SegLen(Head(segs)) = 0 THEN ExactRange(Tail(segs), lo, hi)
    ELSE /\ Head(segs).lo = lo
         /\ Head(segs).hi <= hi
         /\ ExactRange(Tail(segs), Head(segs).hi + 1, hi)

\* C27: when the scan has found the end-of-central-directory record, the
\* stream it returns holds the bytes of the source from the offset stored in
\* the record to the end of the source; the bytes before the scanned region
\* were fetched with one request [dirStart, chunkStart - 1] when dirStart was
\* before chunkStart, and with none otherwise.
C27_StreamFromDirectoryStart ==
    (source.kind = "zip" /\ scan.pc = "found") =>
        /\ scan.dirStart = source.dirAt
        /\ ExactRange(scan.centralDirectory, source.dirAt, SourceLength(source) - 1)
        /\ LET backfills == SelectSeq(requests, LAMBDA q : q.by = "backfill")
           IN  IF source.dirAt < scan.chunkStart
               THEN backfills = << [by |-> "backfill", start |-> source.dirAt,
                                    end |-> scan.chunkStart - 1] >>
               ELSE backfills = <<>>

\* where the end-of-central-directory record of an archive begins
EndRecordAt(src) == src.dirAt + src.dirLength

\* how many bytes of the end record lie before the chunk that is fetched first
BytesBeforeLastChunk(src) ==
    Max(0, SourceLength(src) - CENTRAL_DIRECTORY_END_SCAN_CHUNK_SIZE) - EndRecordAt(src)

\* the signature (bytes 0..3) or the directory offset (bytes 16..19) of the end
\* record is split between the chunk fetched first and the one fetched next
SplitEndRecord(src) ==
    /\ src.kind = "zip"
    /\ BytesBeforeLastChunk(src) \in (1..3) \cup (17..19)

\* C28: when the signature or the directory offset of the end record is split
\* between two scan chunks, the scan does not fail, and once both chunks have
\* been fetched it has located the record.
C28_StraddlingRecordLocated ==
    SplitEndRecord(source) =>
        /\ scan.pc \notin {"notfound", "rangeerror"}
        /\ scan.chunks >= 2 => (scan.pc \in {"backfill", "found"}
                                  /\ scan.dirStart = source.dirAt)

\* the requests started by write() whose .finally has not run
Unfinished ==
    {r \in DOMAIN rq :
        rq[r] \in {"acquire", "fetching", "resolved", "rejected", "pushed", "caught"}}

\* C29: requestsInProgress is never negative and counts the requests started
\* by write() whose promise chain has not finished; it is decremented for a
\* request only after its byte stream was pushed onto byteStreams (or its
\* failure was caught); so the closing condition of pull never holds while a
\* resolved byte stream has not been pushed.
C29_CounterCoversUnqueued ==
    /\ [](requestsInProgress >= 0)
    /\ [](requestsInProgress = Cardinality(Unfinished))
    /\ [][ requestsInProgress' < requestsInProgress =>
              \E r \in DOMAIN rq :
                  /\ rq[r] \in {"pushed", "caught"}
                  /\ rq'[r] = "done"
                  /\ requestsInProgress' = requestsInProgress - 1 ]_vars
    /\ []((isWritableClosed /\ byteStreams = <<>> /\ requestsInProgress = 0)
            => \A r \in DOMAIN rq : rq[r] \notin {"acquire", "fetching", "resolved"})

\* a request resolves while the writable is closed, nothing is queued and it
\* is the only request in progress
C29_ResolvedWhileClosedAndEmpty ==
    /\ isWritableClosed
    /\ writable = "closed"
    /\ byteStreams = <<>>
    /\ pull = "wait"
    /\ requestsInProgress = 1
    /\ \E r \in DOMAIN rq : rq[r] = "resolved"
    /\ \E r \in DOMAIN rq : rq[r] = "done"

\* the pull awaits a decode that yields an entry of the partition: its next
\* statement is controller.enqueue(file)
AboutToEnqueue ==
    /\ pull = "read"
    /\ LET r == readFileEntry(source, byteStreams[1].stream, FALSE)
       IN  /\ ~r.threw
           /\ ~IsNull(r.entry)
           /\ isOneOfRequestedFiles(byteStreams[1].zipEntries, r.entry)

\* C30: the pull never comes to enqueue a decoded entry on an output
\* sequence that is closed or closing, and the entries of a closed sequence
\* never change.
C30_NoEnqueueAfterClose ==
    /\ AboutToEnqueue => CanCloseOrEnqueue(readable)
    /\ readable.state = "closed" => readable.queue = <<>>

\* the byte spans [firstByteAt, lastByteAt] of the records do not overlap and
\* the records come in non-decreasing order of firstByteAt
OrderedDisjoint(recs) ==
    \A k \in 2..Len(recs) :
        /\ recs[k].firstByteAt >= recs[k - 1].firstByteAt
        /\ recs[k].firstByteAt > recs[k - 1].lastByteAt

\* C31: with the default maxGap and records with non-overlapping spans in
\* non-decreasing order of firstByteAt, the first partition emitted is empty
\* and the k-th one after it holds exactly the k-th record; once the
\* partitioner has flushed there is one such partition for every record, and
\* once every partition is written and has its slot, the range requests are
\* as many as the selected records.
C31_OnePartitionPerRecord ==
    (maxGap = DefaultMaxGap /\ OrderedDisjoint(selected)) =>
        /\ \A k \in DOMAIN EmittedPartitions :
              EmittedPartitions[k] = IF k = 1 THEN <<>> ELSE << selected[k - 1] >>
        /\ Len(EmittedPartitions) <= 1 + Len(selected)
        /\ flushed => Len(EmittedPartitions) = 1 + Len(selected)
        /\ Len(PartitionRequests) <= Len(selected)
        /\ (flushed /\ partitions = <<>> /\ \A r \in DOMAIN rq : rq[r] # "acquire")
              => Len(PartitionRequests) = Len(selected)

\* MaxRecords records apart from each other, each with its own range request
C31_ThreeRecordsThreeRequests ==
    /\ maxGap = DefaultMaxGap
    /\ OrderedDisjoint(selected)
    /\ Len(selected) = MaxRecords
    /\ flushed /\ partitions = <<>>
    /\ Len(submitted) = 1 + MaxRecords
    /\ Len(PartitionRequests) = MaxRecords

====
